---------------------------- MODULE Spec2Model ----------------------------
(***************************************************************************)
(* IntraCom agent bus (src/src/index.ts): the agent registry, the token    *)
(* and allowlist gate, the per-agent mailboxes and the six tool handlers,  *)
(* with the state file written by saveState and read by loadState.         *)
(*                                                                         *)
(* Conventions of the model                                                *)
(*  - an optional JavaScript value (token?, max?, drain?, meta?,           *)
(*    tokenHash?) is a sequence of length <= 1: <<>> is undefined/omitted, *)
(*    <<v>> is the value v;                                                *)
(*  - a JavaScript object used as a map (state.agents, state.mailboxes) is *)
(*    the sequence of its own properties [key, val] in insertion order;    *)
(*    a property read also sees the members inherited from                 *)
(*    Object.prototype (ProtoKeys);                                        *)
(*  - a thrown Error is caught by the dispatcher (lines 345-351) and       *)
(*    becomes an error result; the text of a result is a tuple of its      *)
(*    fragments, a JSON text is the value it encodes.                      *)
(***************************************************************************)
EXTENDS Integers, Sequences, FiniteSets, TLC

VARIABLES
  state,    \* the module-level `state` (line 88): a BusState, or the pending
            \* Promise that loadState returns for a non-empty file
  blob,     \* the storage file: <<>> missing or empty, <<s>> holding JSON s
  pending,  \* Bun.write calls started by saveState and not yet completed
  uuids,    \* number of crypto.randomUUID() values issued so far
  resp      \* the result of a tools/call request on its way to the client
            \* (<<>> when there is none)

vars == <<state, blob, pending, uuids, resp>>

---------------------------------------------------------------------------
(* Bounds of the model *)

MaxSends == 2      \* successful message_send calls in one run
MaxInFlight == 2   \* Bun.write calls in flight at once (pipelined requests)

(* Arguments of the requests.  The handlers are checked on every argument  *)
(* of the All... sets in every reachable state in which the server takes a *)
(* request; the requests that drive the state machine draw theirs from the *)
(* smaller sets below them.                                                *)

Ids == {"neo", "trinity", "constructor"}
ProtoKeys == {"constructor"}     \* names every object inherits from Object.prototype
AllTokens == {<<>>, <<"">>, <<"t1">>, <<"t2">>}
AllCapabilities == {[role |-> "dev"], [role |-> "ops"]}
AllAllowlists == {<<>>, <<"trinity">>, <<"neo">>, <<"constructor">>,
                  <<"neo", "trinity">>, <<"trinity", "constructor">>}
AllMaxes == {<<>>} \cup {<<n>> : n \in 0 .. MaxSends + 1}
AllDrains == {<<>>, <<TRUE>>, <<FALSE>>}

Tokens == {<<>>, <<"t1">>, <<"t2">>}
Bodies == {"hi"}
Metas == {<<>>}
Times == {1000}
Maxes == {<<>>, <<1>>}
DrainArgs == {<<>>, <<FALSE>>}

\* capabilities, allowlist and token an agent registers with
Profiles(agentId) ==
  IF agentId = "neo"
  THEN {<<[role |-> "dev"], <<"trinity">>, <<>> >>,
        <<[role |-> "ops"], <<"constructor">>, <<"t2">> >>}
  ELSE IF agentId = "trinity"
  THEN {<<[role |-> "ops"], <<"neo">>, <<"t1">> >>,
        <<[role |-> "dev"], <<"neo", "trinity">>, <<>> >>}
  ELSE {<<[role |-> "dev"], <<"trinity">>, <<>> >>}

DefaultMax == 50
DefaultDrain == TRUE

---------------------------------------------------------------------------
(* JavaScript helpers *)

Min(a, b) == IF a < b THEN a ELSE b
Max(a, b) == IF a > b THEN a ELSE b

\* truthiness of an optional string: undefined and "" are falsy
Truthy(opt) == opt # <<>> /\ opt[1] # ""

\* own property test, read, write and delete on an object used as a map
Own(obj, k) == \E i \in DOMAIN obj : obj[i].key = k
Val(obj, k) == obj[CHOOSE i \in DOMAIN obj : obj[i].key = k].val
Put(obj, k, v) ==
  IF Own(obj, k)
  THEN [obj EXCEPT ![CHOOSE i \in DOMAIN obj : obj[i].key = k].val = v]
  ELSE Append(obj, [key |-> k, val |-> v])
Del(obj, k) == SelectSeq(obj, LAMBDA e : e.key # k)
Keys(obj) == {obj[i].key : i \in DOMAIN obj}

\* obj[k] is not undefined: an own property, or a member of Object.prototype
Defined(obj, k) == Own(obj, k) \/ k \in ProtoKeys

\* Array.prototype.slice(start, end) on integers
RelIndex(i, len) == IF i < 0 THEN Max(len + i, 0) ELSE Min(i, len)
Slice(arr, start, end) ==
  LET from == RelIndex(start, Len(arr))
      to == RelIndex(end, Len(arr))
  IN IF to <= from THEN <<>> ELSE SubSeq(arr, from + 1, to)

Includes(arr, x) == \E i \in DOMAIN arr : arr[i] = x

---------------------------------------------------------------------------
(* Storage *)

EmptyState == [promise |-> FALSE, agents |-> <<>>, mailboxes |-> <<>>]
PromiseState == [promise |-> TRUE, agents |-> <<>>, mailboxes |-> <<>>]

\* JSON.stringify(state, null, 2): the agents and the mailboxes
JSONstringify(st) == [agents |-> st.agents, mailboxes |-> st.mailboxes]

\* loadState: a missing or empty file gives the empty BusState; otherwise the
\* value returned is file.json(), a Promise, which has no agents or mailboxes
loadState(file) == IF file = <<>> THEN EmptyState ELSE PromiseState

hashToken(token) == <<"sha-256", token>>

---------------------------------------------------------------------------
(* Authorization gate *)

\* requireAgent returns (TRUE) or throws (FALSE)
requireAgent(st, agentId) == Defined(st.agents, agentId)

\* agent.tokenHash of the value requireAgent returned
tokenHashOf(st, agentId) ==
  IF Own(st.agents, agentId) THEN Val(st.agents, agentId).tokenHash ELSE <<>>

\* mutant of checkToken: a request without a token is let through
checkToken_supplied(tokenHash, token) ==
  ~(tokenHash # <<>> /\ Truthy(token) /\ hashToken(token[1]) # tokenHash[1])

\* checkToken returns (TRUE) or throws (FALSE)
checkToken(tokenHash, token) ==
  ~(tokenHash # <<>> /\ (~Truthy(token) \/ hashToken(token[1]) # tokenHash[1]))

---------------------------------------------------------------------------
(* Results *)

AgentNotRegistered(agentId) == <<"Agent not registered: ", agentId>>
InvalidToken == <<"Invalid token">>
NotAllowedMsg(from, to) == <<"Not allowed: ", from, " -> ", to>>
UnknownTool(name) == <<"Unknown tool: ", name>>
TypeErrorMsg == <<"TypeError">>

\* a returned result: the state after, whether saveState was called, the response
Returned(st, saved, op, text, json) ==
  [state |-> st, saved |-> saved,
   resp |-> <<[op |-> op, isError |-> FALSE, text |-> text, json |-> json]>>]

\* a thrown error, caught by the dispatcher
Thrown(st, op, msg) ==
  [state |-> st, saved |-> FALSE,
   resp |-> <<[op |-> op, isError |-> TRUE, text |-> <<"ERROR: ">> \o msg, json |-> <<>>]>>]

---------------------------------------------------------------------------
(* Tool handlers (the switch of the CallToolRequestSchema handler).  Each   *)
(* gives the result of one request on BusState st.                          *)

\* mutant of agent_list: the records are returned as they are stored
agent_list_stored(st) ==
  IF st.promise THEN Thrown(st, "agent_list", TypeErrorMsg)
  ELSE Returned(st, FALSE, "agent_list", <<>>,
         <<[i \in DOMAIN st.agents |-> st.agents[i].val]>>)

\* case "agent_list"
agent_list(st) ==
  IF st.promise THEN Thrown(st, "agent_list", TypeErrorMsg)
  ELSE Returned(st, FALSE, "agent_list", <<>>,
         <<[i \in DOMAIN st.agents |->
              [agentId |-> st.agents[i].val.agentId,
               capabilities |-> st.agents[i].val.capabilities,
               allowlist |-> st.agents[i].val.allowlist]]>>)

\* mutant of EnsureMailbox: registering starts the mailbox afresh
EnsureMailbox_reset(mailboxes, agentId) == Put(mailboxes, agentId, <<>>)

\* if (!state.mailboxes[agentId]) state.mailboxes[agentId] = []
EnsureMailbox(mailboxes, agentId) ==
  IF ~Defined(mailboxes, agentId) THEN Put(mailboxes, agentId, <<>>) ELSE mailboxes

\* case "agent_register"
agent_register(st, agentId, capabilities, allowlist, token) ==
  IF st.promise THEN Thrown(st, "agent_register", TypeErrorMsg)
  ELSE
    LET agent == [agentId |-> agentId,
                  capabilities |-> capabilities,
                  allowlist |-> allowlist,
                  tokenHash |-> IF Truthy(token) THEN <<hashToken(token[1])>> ELSE <<>>]
        agents == Put(st.agents, agentId, agent)
        mailboxes == EnsureMailbox(st.mailboxes, agentId)
    IN Returned([st EXCEPT !.agents = agents, !.mailboxes = mailboxes], TRUE,
                "agent_register", <<"OK: Agent '", agentId, "' registered">>, <<>>)

\* mutant of agent_unregister: the record and the mailbox are deleted before
\* the token is checked
agent_unregister_eager(st, agentId, token) ==
  IF st.promise THEN Thrown(st, "agent_unregister", TypeErrorMsg)
  ELSE IF ~requireAgent(st, agentId)
    THEN Thrown(st, "agent_unregister", AgentNotRegistered(agentId))
  ELSE IF ~checkToken(tokenHashOf(st, agentId), token)
    THEN Thrown([st EXCEPT !.agents = Del(st.agents, agentId),
                           !.mailboxes = Del(st.mailboxes, agentId)],
                "agent_unregister", InvalidToken)
  ELSE Returned([st EXCEPT !.agents = Del(st.agents, agentId),
                           !.mailboxes = Del(st.mailboxes, agentId)], TRUE,
                "agent_unregister", <<"OK: Agent '", agentId, "' unregistered">>, <<>>)

\* case "agent_unregister"
agent_unregister(st, agentId, token) ==
  IF st.promise THEN Thrown(st, "agent_unregister", TypeErrorMsg)
  ELSE IF ~requireAgent(st, agentId)
    THEN Thrown(st, "agent_unregister", AgentNotRegistered(agentId))
  ELSE IF ~checkToken(tokenHashOf(st, agentId), token)
    THEN Thrown(st, "agent_unregister", InvalidToken)
  ELSE Returned([st EXCEPT !.agents = Del(st.agents, agentId),
                           !.mailboxes = Del(st.mailboxes, agentId)], TRUE,
                "agent_unregister", <<"OK: Agent '", agentId, "' unregistered">>, <<>>)

\* mutant of Allowed: any sender with a non-empty allowlist may send
Allowed_any(sender, to) == sender.allowlist # <<>>

\* sender.allowlist.includes(to)
Allowed(sender, to) == Includes(sender.allowlist, to)

\* mutant of Push: the message is put at the front (unshift)
Push_front(mailbox, msg) == <<msg>> \o mailbox

\* state.mailboxes[to].push(msg)
Push(mailbox, msg) == Append(mailbox, msg)

\* case "message_send"; uuid and now are the values of crypto.randomUUID()
\* and Date.now()
message_send(st, from, to, body, meta, token, uuid, now) ==
  IF st.promise THEN Thrown(st, "message_send", TypeErrorMsg)
  ELSE IF ~requireAgent(st, from)
    THEN Thrown(st, "message_send", AgentNotRegistered(from))
  ELSE IF ~checkToken(tokenHashOf(st, from), token)
    THEN Thrown(st, "message_send", InvalidToken)
  ELSE IF ~requireAgent(st, to)
    THEN Thrown(st, "message_send", AgentNotRegistered(to))
  ELSE IF ~Own(st.agents, from)
    \* sender is a member of Object.prototype: sender.allowlist is undefined
    THEN Thrown(st, "message_send", TypeErrorMsg)
  ELSE IF ~Allowed(Val(st.agents, from), to)
    THEN Thrown(st, "message_send", NotAllowedMsg(from, to))
  ELSE IF ~Own(st.mailboxes, to) /\ to \in ProtoKeys
    \* state.mailboxes[to] is a member of Object.prototype: it has no push
    THEN Thrown(st, "message_send", TypeErrorMsg)
  ELSE
    LET msg == [id |-> uuid, ts |-> now, from |-> from, to |-> to,
                body |-> body, meta |-> meta]
        box == IF Own(st.mailboxes, to) THEN Val(st.mailboxes, to) ELSE <<>>
    IN Returned([st EXCEPT !.mailboxes = Put(st.mailboxes, to, Push(box, msg))],
                TRUE, "message_send", <<"OK: Message sent to '", to, "'">>, <<>>)

\* mutant of SliceRest: a draining read empties the mailbox
SliceRest_all(mailbox, messages) == <<>>

\* mutant of SliceRest: a draining read leaves the mailbox as it is
SliceRest_keep(mailbox, messages) == mailbox

\* mailbox.slice(0, max) and, when draining, mailbox.slice(messages.length)
SliceHead(mailbox, max) == Slice(mailbox, 0, max)
SliceRest(mailbox, messages) == Slice(mailbox, Len(messages), Len(mailbox))

\* mutant of Drains: a read removes what it returns whatever drain says
Drains_always(drain) == TRUE

\* if (drain) { state.mailboxes[agentId] = ...; saveState(state) }
Drains(drain) == drain

\* case "message_read"
message_read(st, agentId, maxArg, drainArg, token) ==
  LET max == IF maxArg = <<>> THEN DefaultMax ELSE maxArg[1]
      drain == IF drainArg = <<>> THEN DefaultDrain ELSE drainArg[1]
  IN
  IF st.promise THEN Thrown(st, "message_read", TypeErrorMsg)
  ELSE IF ~requireAgent(st, agentId)
    THEN Thrown(st, "message_read", AgentNotRegistered(agentId))
  ELSE IF ~checkToken(tokenHashOf(st, agentId), token)
    THEN Thrown(st, "message_read", InvalidToken)
  ELSE IF ~Own(st.mailboxes, agentId) /\ agentId \in ProtoKeys
    \* state.mailboxes[agentId] is a member of Object.prototype: it has no slice
    THEN Thrown(st, "message_read", TypeErrorMsg)
  ELSE
    LET mailbox == IF Own(st.mailboxes, agentId) THEN Val(st.mailboxes, agentId) ELSE <<>>
        messages == SliceHead(mailbox, max)
        after == IF Drains(drain)
                 THEN [st EXCEPT !.mailboxes =
                         Put(st.mailboxes, agentId, SliceRest(mailbox, messages))]
                 ELSE st
        remaining == IF Own(after.mailboxes, agentId)
                     THEN Len(Val(after.mailboxes, agentId)) ELSE 0
    IN Returned(after, Drains(drain), "message_read", <<>>,
                <<[agentId |-> agentId, count |-> Len(messages),
                   remaining |-> remaining, messages |-> messages]>>)

\* mailbox.length where mailbox is a member of Object.prototype (the function
\* Object, of length 1, for "constructor")
ProtoLength(k) == 1

\* case "message_peek"; agentId is optional
message_peek(st, agentId) ==
  IF st.promise THEN Thrown(st, "message_peek", TypeErrorMsg)
  ELSE IF Truthy(agentId)
    THEN Returned(st, FALSE, "message_peek", <<>>,
           <<[agentId |-> agentId[1],
              count |-> IF Own(st.mailboxes, agentId[1])
                        THEN Len(Val(st.mailboxes, agentId[1]))
                        ELSE IF agentId[1] \in ProtoKeys THEN ProtoLength(agentId[1])
                        ELSE 0]>>)
  ELSE Returned(st, FALSE, "message_peek", <<>>,
         <<[i \in DOMAIN st.mailboxes |->
              [key |-> st.mailboxes[i].key, val |-> Len(st.mailboxes[i].val)]]>>)

\* default: of the switch
unknown_tool(st, name) == Thrown(st, name, UnknownTool(name))

\* a string argument after `const { ... } = args`: an argument that is not
\* in args is undefined, which as a property key and in a template literal
\* reads "undefined"
Undefined == "undefined"
Destructured(arg) == IF arg = <<>> THEN Undefined ELSE arg[1]

\* the handler of a tools/call request: name and args are req.params.name and
\* req.params.arguments, with every argument of args either absent (<<>>)
\* or present (<<v>>); nothing compares args with the inputSchema of the tool
CallTool(st, name, args, uuid, now) ==
  IF name = "agent_list" THEN agent_list(st)
  ELSE IF name = "agent_register"
    THEN agent_register(st, Destructured(args.agentId), args.capabilities[1],
                        args.allowlist[1], args.token)
  ELSE IF name = "agent_unregister"
    THEN agent_unregister(st, Destructured(args.agentId), args.token)
  ELSE IF name = "message_send"
    THEN message_send(st, Destructured(args.from), Destructured(args.to),
                      Destructured(args.body), args.meta, args.token, uuid, now)
  ELSE IF name = "message_read"
    THEN message_read(st, Destructured(args.agentId), args.max, args.drain, args.token)
  ELSE IF name = "message_peek" THEN message_peek(st, args.agentId)
  ELSE unknown_tool(st, name)

---------------------------------------------------------------------------
(* The server *)

\* saveState: JSON.stringify runs at the call, Bun.write returns a Promise
\* that nothing awaits; the write completes later (WriteComplete)
saveState(st) ==
  /\ pending' = Append(pending, JSONstringify(st))
  /\ UNCHANGED blob

\* the server waits for a request: the client has the result of its last
\* request and the writes started so far have settled
Idle == pending = <<>> /\ resp = <<>>

\* one tools/call request handled to its result.  The handler has no await:
\* it runs from the request to the result in one step.  In this
\* specification the client sends its requests one after the other, each
\* when the server is Idle; what a request does to state and what it returns
\* do not depend on blob, pending or resp.
Handle(r) ==
  /\ Idle
  /\ state' = r.state
  /\ resp' = r.resp
  /\ IF r.saved THEN saveState(r.state) ELSE UNCHANGED <<blob, pending>>

\* a BusState saved by an earlier run: neo and trinity registered, one message
\* from neo queued for trinity
EarlierState ==
  [promise |-> FALSE,
   agents |-> <<[key |-> "neo",
                 val |-> [agentId |-> "neo", capabilities |-> [role |-> "dev"],
                          allowlist |-> <<"trinity">>, tokenHash |-> <<>>]],
                [key |-> "trinity",
                 val |-> [agentId |-> "trinity", capabilities |-> [role |-> "ops"],
                          allowlist |-> <<"neo">>,
                          tokenHash |-> <<hashToken("t1")>>]]>>,
   mailboxes |-> <<[key |-> "neo", val |-> <<>>],
                   [key |-> "trinity",
                    val |-> <<[id |-> 0, ts |-> 999, from |-> "neo", to |-> "trinity",
                               body |-> "hi", meta |-> <<>>]>>]>>]

\* a file whose text is not JSON
Unparsable == [garbage |-> TRUE]

\* the storage file at process start: absent or empty, left by an earlier
\* run, or damaged
InitBlobs == {<<>>, <<JSONstringify(EmptyState)>>, <<JSONstringify(EarlierState)>>,
              <<Unparsable>>}

Init ==
  /\ blob \in InitBlobs
  /\ state = loadState(blob)
  /\ pending = <<>>
  /\ uuids = 0
  /\ resp = <<>>

AgentList ==
  /\ Handle(agent_list(state))
  /\ UNCHANGED uuids

AgentRegister ==
  \E agentId \in Ids : \E p \in Profiles(agentId) :
    /\ Handle(agent_register(state, agentId, p[1], p[2], p[3]))
    /\ UNCHANGED uuids

AgentUnregister ==
  \E agentId \in Ids, token \in Tokens :
    /\ Handle(agent_unregister(state, agentId, token))
    /\ UNCHANGED uuids

MessageSend ==
  \E from \in Ids, to \in Ids, body \in Bodies, meta \in Metas,
     token \in Tokens, now \in Times :
    LET r == message_send(state, from, to, body, meta, token, uuids + 1, now)
    IN /\ r.saved => uuids < MaxSends
       /\ Handle(r)
       /\ uuids' = IF r.saved THEN uuids + 1 ELSE uuids

MessageRead ==
  \E agentId \in Ids, max \in Maxes, drain \in DrainArgs, token \in Tokens :
    /\ Handle(message_read(state, agentId, max, drain, token))
    /\ UNCHANGED uuids

MessagePeek ==
  \E agentId \in {<<>>} \cup {<<id>> : id \in Ids} :
    /\ Handle(message_peek(state, agentId))
    /\ UNCHANGED uuids

UnknownToolCall ==
  /\ Handle(unknown_tool(state, "agent_delete"))
  /\ UNCHANGED uuids

\* a Bun.write started by saveState completes: the file holds its text
WriteComplete ==
  \E i \in DOMAIN pending :
    /\ blob' = <<pending[i]>>
    /\ pending' = SubSeq(pending, 1, i - 1) \o SubSeq(pending, i + 1, Len(pending))
    /\ UNCHANGED <<state, uuids, resp>>

\* a Bun.write started by saveState fails (the blob store is unavailable):
\* its Promise rejects, which nothing handles; the file is left as it was
WriteFail ==
  \E i \in DOMAIN pending :
    /\ pending' = SubSeq(pending, 1, i - 1) \o SubSeq(pending, i + 1, Len(pending))
    /\ UNCHANGED <<state, blob, uuids, resp>>

\* the result returned by the handler reaches the client
ReplySent ==
  /\ resp # <<>>
  /\ resp' = <<>>
  /\ UNCHANGED <<state, blob, pending, uuids>>

Next ==
  \/ AgentList
  \/ AgentRegister
  \/ AgentUnregister
  \/ MessageSend
  \/ MessageRead
  \/ MessagePeek
  \/ UnknownToolCall
  \/ WriteComplete
  \/ ReplySent

Spec == Init /\ [][Next]_vars

\* the server while the blob store is unavailable: every write fails
NextStoreDown ==
  \/ AgentList
  \/ AgentRegister
  \/ AgentUnregister
  \/ MessageSend
  \/ MessageRead
  \/ MessagePeek
  \/ UnknownToolCall
  \/ WriteFail
  \/ ReplySent

SpecStoreDown == Init /\ [][NextStoreDown]_vars

\* a client that pipelines: it sends a request without waiting for the
\* result of the one before, so the handler runs while writes of earlier
\* requests are in flight.  Each handler still runs to its result in one
\* step (it has no await); resp is the result produced last.
Pipelined(r) ==
  /\ r.saved => Len(pending) < MaxInFlight
  /\ state' = r.state
  /\ resp' = r.resp
  /\ IF r.saved THEN saveState(r.state) ELSE UNCHANGED <<blob, pending>>

\* the agents of the pipelining client, which register without a token
PipelinedIds == {"neo", "trinity"}
PipelinedProfiles(agentId) == {p \in Profiles(agentId) : p[3] = <<>>}

PipelinedRegister ==
  \E agentId \in PipelinedIds : \E p \in PipelinedProfiles(agentId) :
    /\ Pipelined(agent_register(state, agentId, p[1], p[2], p[3]))
    /\ UNCHANGED uuids

PipelinedUnregister ==
  \E agentId \in PipelinedIds :
    /\ Pipelined(agent_unregister(state, agentId, <<>>))
    /\ UNCHANGED uuids

PipelinedSend ==
  \E from \in PipelinedIds, to \in PipelinedIds :
    LET r == message_send(state, from, to, "hi", <<>>, <<>>, uuids + 1, 1000)
    IN /\ r.saved => uuids < MaxSends
       /\ Pipelined(r)
       /\ uuids' = IF r.saved THEN uuids + 1 ELSE uuids

PipelinedRead ==
  \E agentId \in PipelinedIds, drain \in DrainArgs :
    /\ Pipelined(message_read(state, agentId, <<>>, drain, <<>>))
    /\ UNCHANGED uuids

NextPipelined ==
  \/ PipelinedRegister
  \/ PipelinedUnregister
  \/ PipelinedSend
  \/ PipelinedRead
  \/ WriteComplete

SpecPipelined == Init /\ [][NextPipelined]_vars

---------------------------------------------------------------------------
(* Vocabulary of the properties *)

\* the mailbox stored under key k (empty when there is none)
MailboxOf(st, k) == IF Own(st.mailboxes, k) THEN Val(st.mailboxes, k) ELSE <<>>

\* k is in the registry: state.agents has an own record for it
Registered(st, k) == ~st.promise /\ Own(st.agents, k)

\* the messages of a sequence are in the order of their sends: the n-th
\* successful message_send of the run carries id n
SentInOrder(ms) == \A i, j \in DOMAIN ms : i < j => ms[i].id < ms[j].id

\* the token an agent registered with (the preimage of its tokenHash)
RegisteredToken(st, k) == Val(st.agents, k).tokenHash[1][2]
Protected(st, k) == Registered(st, k) /\ Val(st.agents, k).tokenHash # <<>>

\* the caller presents what the agent's record asks for
HoldsToken(st, k, token) ==
  Protected(st, k) => (token # <<>> /\ token[1] = RegisteredToken(st, k))

ErrorText(msg) == <<"ERROR: ">> \o msg
Failed(r, msg) == r.resp[1].isError /\ r.resp[1].text = ErrorText(msg)
            /\ ~r.saved
Succeeded(r) == ~r.resp[1].isError

LastOp(op) == resp # <<>> /\ resp[1].op = op
LastOk(op) == LastOp(op) /\ ~resp[1].isError
LastFailed(op, msg) == LastOp(op) /\ resp[1].isError /\ resp[1].text = ErrorText(msg)

---------------------------------------------------------------------------
(* C1: the messages of a mailbox are in the order in which their sends     *)
(* succeeded, oldest first, whatever the senders: message_send puts the    *)
(* new message behind every message already queued, and a message_read     *)
(* returns a head of the mailbox in mailbox order, so no message that is   *)
(* left behind was sent before a message that is returned.                 *)
C1_SendOrder ==
  /\ \A i \in DOMAIN state.mailboxes : SentInOrder(state.mailboxes[i].val)
  /\ Idle =>
    /\ \A from \in Ids, to \in Ids, token \in AllTokens :
         LET r == message_send(state, from, to, "hi", <<>>, token, uuids + 1, 1000)
             old == MailboxOf(state, to)
             new == MailboxOf(r.state, to)
         IN Succeeded(r) =>
              /\ Len(new) = Len(old) + 1
              /\ SubSeq(new, 1, Len(old)) = old
              /\ new[Len(new)].id = uuids + 1
    /\ \A agentId \in Ids, max \in AllMaxes, drain \in AllDrains, token \in AllTokens :
         LET r == message_read(state, agentId, max, drain, token)
         IN Succeeded(r) =>
              LET out == r.resp[1].json[1].messages
                  left == MailboxOf(r.state, agentId)
              IN /\ SentInOrder(out)
                 /\ \A j \in DOMAIN left :
                      \/ \E i \in DOMAIN out : out[i] = left[j]
                      \/ \A i \in DOMAIN out : out[i].id < left[j].id

\* a draining read has returned the older of two messages that two
\* different senders sent to one recipient, and left the newer one
C1_Witness ==
  /\ LastOk("message_read")
  /\ LET j == resp[1].json[1]
         left == MailboxOf(state, j.agentId)
     IN /\ j.count = 1
        /\ Len(left) = 1
        /\ left[1].id > j.messages[1].id
        /\ left[1].from # j.messages[1].from

---------------------------------------------------------------------------
LongMailbox == 51

\* a BusState in which neo holds LongMailbox messages it sent to itself
LongState ==
  [promise |-> FALSE,
   agents |-> <<[key |-> "neo",
                 val |-> [agentId |-> "neo", capabilities |-> [role |-> "dev"],
                          allowlist |-> <<"neo">>, tokenHash |-> <<>>]]>>,
   mailboxes |-> <<[key |-> "neo",
                    val |-> [i \in 1 .. LongMailbox |->
                               [id |-> i, ts |-> 1000, from |-> "neo", to |-> "neo",
                                body |-> "hi", meta |-> <<>>]]]>>]

\* what C2 says of a draining read of b with max N (50 when omitted)
DrainsHead(st, b, max, drain, token) ==
  LET box == MailboxOf(st, b)
      L == Len(box)
      N == IF max = <<>> THEN 50 ELSE max[1]
      k == IF N < L THEN N ELSE L
      r == message_read(st, b, max, drain, token)
      j == r.resp[1].json[1]
  IN /\ Succeeded(r)
     /\ r.saved
     /\ j.messages = SubSeq(box, 1, k)
     /\ j.count = k
     /\ j.remaining = L - k
     /\ MailboxOf(r.state, b) = SubSeq(box, k + 1, L)
     /\ r.state.agents = st.agents
     /\ Len(r.state.mailboxes) = Len(st.mailboxes)
     /\ \A i \in DOMAIN st.mailboxes :
          st.mailboxes[i].key # b => r.state.mailboxes[i] = st.mailboxes[i]

(* C2: for a registered agent b with a mailbox of length L and max = N >= 0, *)
(* an authorized draining message_read returns the first min(N, L)          *)
(* messages in mailbox order, removes exactly those from the head, leaves   *)
(* the other L - min(N, L) in place and in order, and reports               *)
(* count = min(N, L) and remaining = L - min(N, L); an omitted max is 50    *)
(* (checked on a mailbox of LongMailbox messages as well).                  *)
C2_DrainingRead ==
  Idle =>
    /\ \A b \in Ids, max \in AllMaxes, drain \in {<<>>, <<TRUE>>}, token \in AllTokens :
         (Registered(state, b) /\ Own(state.mailboxes, b) /\ HoldsToken(state, b, token))
           => DrainsHead(state, b, max, drain, token)
    /\ \A max \in {<<>>, <<0>>, <<50>>, <<LongMailbox>>, <<LongMailbox + 1>>} :
         DrainsHead(LongState, "neo", max, <<>>, <<>>)

\* a draining read with max = 1 has taken one message of two
C2_Witness ==
  /\ LastOk("message_read")
  /\ pending # <<>>
  /\ resp[1].json[1].count = 1
  /\ resp[1].json[1].remaining = 1
  /\ Len(MailboxOf(state, resp[1].json[1].agentId)) = 1

---------------------------------------------------------------------------
\* a registered sender a whose allowlist lacks b cannot send to b
RefusesOutsideAllowlist ==
  \A a \in Ids, b \in Ids, token \in AllTokens :
    (Idle /\ Registered(state, a) /\ ~Includes(Val(state.agents, a).allowlist, b)) =>
      LET r == message_send(state, a, b, "hi", <<>>, token, uuids + 1, 1000)
      IN /\ r.resp[1].isError
         /\ ~r.saved
         /\ r.state = state
         /\ (HoldsToken(state, a, token) /\ Registered(state, b))
              => Failed(r, NotAllowedMsg(a, b))

\* a message that a step adds to the mailbox of k was sent to k by an agent
\* whose allowlist held k when the step began
AddsOnlyAllowed ==
  \A i \in DOMAIN state'.mailboxes :
    LET k == state'.mailboxes[i].key
        new == state'.mailboxes[i].val
        old == MailboxOf(state, k)
    IN \A n \in DOMAIN new :
         (\A m \in DOMAIN old : old[m] # new[n]) =>
           /\ new[n].to = k
           /\ Registered(state, new[n].from)
           /\ Includes(Val(state.agents, new[n].from).allowlist, k)

(* C3: message_send(from = a, to = b) fails and appends nothing whenever b  *)
(* is not in the allowlist of the registered sender a, and the failure is   *)
(* NotAllowed once a has passed its token check and b is registered, also   *)
(* when b is in another agent's allowlist or a is in b's; so every message  *)
(* that enters a mailbox was sent by an agent whose allowlist contained the *)
(* recipient at the moment of the send.                                     *)
C3_Allowlist == [] RefusesOutsideAllowlist /\ [][AddsOnlyAllowed]_vars

\* a send from a to b was refused as not allowed although b is registered,
\* a is in b's allowlist and b is in the allowlist of a third agent c
C3_Witness ==
  \E a \in Ids, b \in Ids, c \in Ids :
    /\ a # b /\ c # a /\ c # b
    /\ LastFailed("message_send", NotAllowedMsg(a, b))
    /\ Registered(state, a) /\ Registered(state, b) /\ Registered(state, c)
    /\ ~Includes(Val(state.agents, a).allowlist, b)
    /\ Includes(Val(state.agents, b).allowlist, a)
    /\ Includes(Val(state.agents, c).allowlist, b)

---------------------------------------------------------------------------
\* the result is not the Unauthorized error
PassedTokenCheck(r) == r.resp[1].text # ErrorText(InvalidToken)

(* C4: for a token-protected agent x, message_send from x, message_read of  *)
(* x and agent_unregister of x fail with Unauthorized (changing nothing)    *)
(* when no token or a token other than the registered one is supplied, and  *)
(* pass the token check with the registered token; for an agent without     *)
(* tokenHash the token check passes whatever is supplied.                   *)
C4_TokenCheck ==
  \A x \in Ids, token \in AllTokens :
    (Idle /\ Registered(state, x)) =>
      LET u == agent_unregister(state, x, token)
          rd(max, drain) == message_read(state, x, max, drain, token)
          sd(to) == message_send(state, x, to, "hi", <<>>, token, uuids + 1, 1000)
      IN IF Protected(state, x)
            /\ (token = <<>> \/ token[1] # RegisteredToken(state, x))
         THEN /\ Failed(u, InvalidToken) /\ u.state = state
              /\ \A max \in AllMaxes, drain \in AllDrains :
                   Failed(rd(max, drain), InvalidToken) /\ rd(max, drain).state = state
              /\ \A to \in Ids :
                   Failed(sd(to), InvalidToken) /\ sd(to).state = state
         ELSE /\ Succeeded(u)
              /\ \A max \in AllMaxes, drain \in AllDrains :
                   /\ PassedTokenCheck(rd(max, drain))
                   /\ Own(state.mailboxes, x) => Succeeded(rd(max, drain))
              /\ \A to \in Ids : PassedTokenCheck(sd(to))

\* an agent_unregister of a token-protected agent was refused
C4_Witness ==
  /\ LastFailed("agent_unregister", InvalidToken)
  /\ \E x \in Ids : Protected(state, x)

---------------------------------------------------------------------------
\* the entries of agent_list's result for agentId
Listed(st, agentId) ==
  LET list == agent_list(st).resp[1].json[1]
  IN {list[i] : i \in {n \in DOMAIN list : list[n].agentId = agentId}}

\* what C5 says of agent_register(agentId, capabilities, allowlist, token)
RegistersLatest(st, agentId, capabilities, allowlist, token) ==
  LET r == agent_register(st, agentId, capabilities, allowlist, token)
      want == [agentId |-> agentId, capabilities |-> capabilities,
               allowlist |-> allowlist,
               tokenHash |-> IF token # <<>> THEN <<hashToken(token[1])>> ELSE <<>>]
  IN /\ Succeeded(r)
     /\ Registered(r.state, agentId)
     /\ Val(r.state.agents, agentId) = want
     /\ Listed(r.state, agentId) =
          {[agentId |-> agentId, capabilities |-> capabilities, allowlist |-> allowlist]}
     /\ \A t \in AllTokens :
          Succeeded(agent_unregister(r.state, agentId, t)) <=> (token = <<>> \/ t = token)

(* C5: agent_register always succeeds, checks no token against an earlier  *)
(* record of the same agentId, replaces capabilities, allowlist and        *)
(* tokenHash by those of the latest call, sets tokenHash = hashToken(token)*)
(* exactly when a token is supplied and clears it otherwise; agent_list    *)
(* then shows only the latest values and token checks use the latest hash. *)
C5_RegisterReplaces ==
  \A agentId \in Ids, capabilities \in AllCapabilities,
     allowlist \in AllAllowlists, token \in AllTokens :
    RegistersLatest(state, agentId, capabilities, allowlist, token)

\* C5 where it holds: on a loaded BusState and for a token that is omitted
\* or not the empty string
C5_OnBusStateNonEmptyToken ==
  ~state.promise =>
    \A agentId \in Ids, capabilities \in AllCapabilities,
       allowlist \in AllAllowlists, token \in AllTokens \ {<<"">>} :
      RegistersLatest(state, agentId, capabilities, allowlist, token)

---------------------------------------------------------------------------
\* what C6 says of x while it is unregistered
Gone(st, x) ==
  /\ ~Own(st.agents, x)
  /\ ~Own(st.mailboxes, x)
  /\ message_peek(st, <<x>>).resp[1].json[1].count = 0
  /\ LET counts == message_peek(st, <<>>).resp[1].json[1]
     IN \A i \in DOMAIN counts : counts[i].key # x
  /\ \A from \in Ids, token \in AllTokens :
       LET r == message_send(st, from, x, "hi", <<>>, token, uuids + 1, 1000)
       IN /\ r.resp[1].isError /\ r.state = st
          /\ (Registered(st, from) /\ HoldsToken(st, from, token))
               => Failed(r, AgentNotRegistered(x))
  /\ \A capabilities \in AllCapabilities, allowlist \in AllAllowlists,
        token \in AllTokens :
       MailboxOf(agent_register(st, x, capabilities, allowlist, token).state, x) = <<>>

\* the step is a successful agent_unregister of the registered agent x
UnregisterStep(x) ==
  /\ Registered(state, x)
  /\ resp' # <<>>
  /\ resp'[1].op = "agent_unregister"
  /\ resp'[1].text = <<"OK: Agent '", x, "' unregistered">>

UnregisterDiscards(S) ==
  \A x \in S :
    /\ UnregisterStep(x) => Gone(state', x)
    /\ (~state.promise /\ Gone(state, x) /\ ~Own(state'.agents, x)) => Gone(state', x)

(* C6: a successful agent_unregister(x) removes x's record and mailbox with *)
(* the messages queued in it; from then until x is registered again         *)
(* message_peek(x) reports count 0, message_peek() omits x, a message_send  *)
(* to x fails (with AgentNotFound for a registered, authorized sender), and *)
(* a later agent_register(x) starts from an empty mailbox.                  *)
C6_UnregisterDiscards == [][UnregisterDiscards(Ids)]_vars

\* C6 where it holds: for the ids that are not members of Object.prototype
C6_OutsidePrototype == [][UnregisterDiscards(Ids \ ProtoKeys)]_vars

---------------------------------------------------------------------------
(* C7: message_read with drain = false changes nothing: the BusState after  *)
(* the call is the BusState before it and nothing is saved, for every       *)
(* agentId, max and token; a successful call reports remaining = the        *)
(* mailbox length and the head of the mailbox, and the same call repeated   *)
(* gives the same result.                                                   *)
C7_ReadWithoutDrain ==
  Idle =>
    \A agentId \in Ids, max \in AllMaxes \cup {<<-1>>}, token \in AllTokens :
      LET r == message_read(state, agentId, max, <<FALSE>>, token)
          box == MailboxOf(state, agentId)
      IN /\ r.state = state
         /\ ~r.saved
         /\ message_read(r.state, agentId, max, <<FALSE>>, token).resp = r.resp
         /\ Succeeded(r) =>
              LET j == r.resp[1].json[1]
              IN /\ j.remaining = Len(box)
                 /\ j.count = Len(j.messages)
                 /\ j.count <= Len(box)
                 /\ j.messages = SubSeq(box, 1, j.count)

\* a read with drain = false has returned one of two queued messages, which
\* are both still in the mailbox
C7_Witness ==
  /\ LastOk("message_read")
  /\ LET j == resp[1].json[1]
         box == MailboxOf(state, j.agentId)
     IN /\ j.count = 1
        /\ j.remaining = 2
        /\ Len(box) = 2
        /\ box[1] = j.messages[1]

---------------------------------------------------------------------------
(* C8: agent_register leaves an existing mailbox of the agentId as it is,   *)
(* leaves every other agent's record and mailbox as they are, and creates a *)
(* mailbox, an empty one, only when the agentId has none.                   *)
C8_RegisterKeepsMailbox ==
  Idle =>
    \A agentId \in Ids, capabilities \in AllCapabilities,
       allowlist \in AllAllowlists, token \in AllTokens :
      LET r == agent_register(state, agentId, capabilities, allowlist, token)
      IN /\ Own(state.mailboxes, agentId) => r.state.mailboxes = state.mailboxes
         /\ r.state.mailboxes # state.mailboxes =>
              /\ ~Own(state.mailboxes, agentId)
              /\ r.state.mailboxes =
                   Append(state.mailboxes, [key |-> agentId, val |-> <<>>])
         /\ \A k \in Ids \ {agentId} :
              /\ Own(r.state.agents, k) <=> Own(state.agents, k)
              /\ Own(state.agents, k) => Val(r.state.agents, k) = Val(state.agents, k)
              /\ Own(r.state.mailboxes, k) <=> Own(state.mailboxes, k)
              /\ MailboxOf(r.state, k) = MailboxOf(state, k)

\* an agent has registered again while a message was queued for it
C8_Witness ==
  \E x \in Ids :
    /\ LastOk("agent_register")
    /\ resp[1].text = <<"OK: Agent '", x, "' registered">>
    /\ pending # <<>>
    /\ Len(MailboxOf(state, x)) >= 1

---------------------------------------------------------------------------
\* what C9 says of an agentId that is not in the registry
FailsAsNotFound(x) ==
  /\ \A token \in AllTokens :
       Failed(agent_unregister(state, x, token), AgentNotRegistered(x))
  /\ \A max \in AllMaxes, drain \in AllDrains, token \in AllTokens :
       Failed(message_read(state, x, max, drain, token), AgentNotRegistered(x))
  /\ \A to \in Ids, token \in AllTokens :
       Failed(message_send(state, x, to, "hi", <<>>, token, uuids + 1, 1000),
              AgentNotRegistered(x))
  /\ \A from \in Ids, token \in AllTokens :
       (Registered(state, from) /\ HoldsToken(state, from, token)) =>
         Failed(message_send(state, from, x, "hi", <<>>, token, uuids + 1, 1000),
                AgentNotRegistered(x))

(* C9: for every agentId that is not in the registry, agent_unregister,     *)
(* message_read, message_send from it and message_send to it by a           *)
(* registered, authorized sender fail with AgentNotFound; none of them      *)
(* returns a success acknowledgement.                                       *)
C9_UnknownAgentFails ==
  \A x \in Ids : (~state.promise /\ ~Own(state.agents, x)) => FailsAsNotFound(x)

\* C9 where it holds: for the ids that are not members of Object.prototype
C9_OutsidePrototype ==
  \A x \in Ids \ ProtoKeys :
    (~state.promise /\ ~Own(state.agents, x)) => FailsAsNotFound(x)

---------------------------------------------------------------------------
\* the last request was a mutating operation and returned a success result
MutationAcknowledged ==
  /\ resp # <<>>
  /\ ~resp[1].isError
  /\ resp[1].op \in {"agent_register", "agent_unregister", "message_send", "message_read"}

(* C10: when the success result of a mutating operation is observable, the  *)
(* write of the full BusState has completed: no write is in flight and the  *)
(* storage file holds the in-memory BusState.                               *)
C10_SavedBeforeReply ==
  MutationAcknowledged => (pending = <<>> /\ blob = <<JSONstringify(state)>>)

---------------------------------------------------------------------------
\* the step is the failure of a write that saveState started
SaveFails ==
  /\ Len(pending') < Len(pending)
  /\ blob' = blob

(* C11: when the save started by a mutating operation fails, the response   *)
(* of that operation is an error result, not a success acknowledgement,     *)
(* and the mutation stays applied in memory.                                *)
C11_SaveFailureSurfaces ==
  [][SaveFails => (resp # <<>> /\ resp[1].isError /\ state' = state)]_vars

---------------------------------------------------------------------------
\* JSON.parse of a text written by saveState
JSONparse(text) ==
  [promise |-> FALSE, agents |-> text.agents, mailboxes |-> text.mailboxes]

\* the BusState C12 expects from a storage file
Persisted(file) ==
  IF file # <<>> /\ file[1] # Unparsable THEN JSONparse(file[1]) ELSE EmptyState

(* C12: at process start the BusState is the one last persisted when the    *)
(* file exists and is readable and the empty BusState when it is missing,   *)
(* empty or unparsable; load always yields a usable BusState, on which the  *)
(* operations behave as on that state (agent_list, message_peek).           *)
C12_LoadAtStart ==
  /\ ~state.promise
  /\ \A file \in InitBlobs :
       /\ loadState(file) = Persisted(file)
       /\ agent_list(loadState(file)).resp = agent_list(Persisted(file)).resp
       /\ message_peek(loadState(file), <<>>).resp = message_peek(Persisted(file), <<>>).resp

---------------------------------------------------------------------------
\* r, the outcome of one request on BusState st, is exactly one result, a
\* success or an error with the error flag set, and an error changes nothing
OneResult(st, r) ==
  /\ Len(r.resp) = 1
  /\ r.resp[1].isError \in BOOLEAN
  /\ r.resp[1].isError =>
       /\ r.resp[1].text[1] = "ERROR: "
       /\ r.state = st
       /\ ~r.saved

\* every request the server can take now gives one result and fails cleanly
FailsCleanly ==
  Idle =>
    /\ OneResult(state, agent_list(state))
    /\ \A name \in {"agent_delete", ""} : OneResult(state, unknown_tool(state, name))
    /\ \A agentId \in {<<>>} \cup {<<id>> : id \in Ids} :
         OneResult(state, message_peek(state, agentId))
    /\ \A agentId \in Ids, token \in AllTokens :
         /\ OneResult(state, agent_unregister(state, agentId, token))
         /\ \A p \in Profiles(agentId) :
              OneResult(state, agent_register(state, agentId, p[1], p[2], token))
         /\ \A max \in AllMaxes, drain \in AllDrains :
              OneResult(state, message_read(state, agentId, max, drain, token))
         /\ \A to \in Ids :
              OneResult(state, message_send(state, agentId, to, "hi", <<>>, token,
                                            uuids + 1, 1000))

\* a step that answers a request with an error leaves the BusState, the
\* storage file and the writes in flight as they were
ErrorStepChangesNothing ==
  (resp' # resp /\ resp' # <<>> /\ resp'[1].isError) =>
    (state' = state /\ blob' = blob /\ pending' = pending /\ uuids' = uuids)

(* C13: every request yields exactly one result, a success or an error with *)
(* the error flag set; every failing operation (AgentNotFound, Unauthorized,*)
(* NotAllowed, unknown operation name) leaves the BusState exactly as it    *)
(* was, so the operation that follows a failure behaves as if the failed    *)
(* one had never been issued.                                               *)
C13_ErrorsLeaveState == [] FailsCleanly /\ [][ErrorStepChangesNothing]_vars

\* an agent_unregister was refused for its token while a message was queued
\* for the agent, and the message is still there
C13_Witness ==
  \E x \in Ids :
    /\ LastFailed("agent_unregister", InvalidToken)
    /\ Protected(state, x)
    /\ Len(MailboxOf(state, x)) >= 1

---------------------------------------------------------------------------
\* the arguments of a well-formed request of agent a about agent b
FullArgs(a, b, p, token) ==
  [agentId |-> <<a>>, capabilities |-> <<p[1]>>, allowlist |-> <<p[2]>>,
   token |-> token, from |-> <<a>>, to |-> <<b>>, body |-> <<"hi">>,
   meta |-> <<>>, max |-> <<>>, drain |-> <<>>]

\* the required string arguments of the operations
RequiredArgs ==
  {<<"agent_register", "agentId">>, <<"agent_unregister", "agentId">>,
   <<"message_read", "agentId">>, <<"message_send", "from">>,
   <<"message_send", "to">>, <<"message_send", "body">>}

(* C14: an operation invoked with a required argument missing (agentId for  *)
(* agent_register, agent_unregister, message_read; from, to or body for     *)
(* message_send) returns an error result and leaves the BusState unchanged: *)
(* no agent record and no mailbox is created.                               *)
C14_MissingArguments ==
  Idle =>
    \A a \in Ids, b \in Ids, token \in AllTokens, q \in RequiredArgs :
      \A p \in Profiles(a) :
        LET args == [FullArgs(a, b, p, token) EXCEPT ![q[2]] = <<>>]
            r == CallTool(state, q[1], args, uuids + 1, 1000)
        IN /\ r.resp[1].isError
           /\ r.state = state
           /\ ~r.saved

---------------------------------------------------------------------------
\* r is a success that leaves BusState st as it was and saves nothing
ReadsOnly(st, r) == Succeeded(r) /\ r.state = st /\ ~r.saved

(* C15: agent_list and message_peek, which take no token, never fail and    *)
(* leave the BusState unchanged in every state; message_peek(agentId)       *)
(* returns the current length of that agent's mailbox and 0 when the id has *)
(* no mailbox; message_peek() returns the length of every mailbox of the    *)
(* store; agent_list returns the registered agents in insertion order; none *)
(* of them returns message content.                                         *)
C15_ListAndPeek ==
  /\ LET r == agent_list(state)
     IN /\ ReadsOnly(state, r)
        /\ r.resp[1].json[1] =
             [i \in DOMAIN state.agents |->
                [agentId |-> state.agents[i].key,
                 capabilities |-> state.agents[i].val.capabilities,
                 allowlist |-> state.agents[i].val.allowlist]]
  /\ LET r == message_peek(state, <<>>)
     IN /\ ReadsOnly(state, r)
        /\ r.resp[1].json[1] =
             [i \in DOMAIN state.mailboxes |->
                [key |-> state.mailboxes[i].key,
                 val |-> Len(state.mailboxes[i].val)]]
  /\ \A x \in Ids :
       LET r == message_peek(state, <<x>>)
       IN /\ ReadsOnly(state, r)
          /\ r.resp[1].json[1] = [agentId |-> x, count |-> Len(MailboxOf(state, x))]

---------------------------------------------------------------------------
\* the tokens of the callers and the values tokenHash can take
Secrets == {t[1] : t \in AllTokens \ {<<>>}}
Hashes == {<<>>} \cup {<<hashToken(t)>> : t \in Secrets}

\* BusState st with the tokenHash of every agent k replaced by h[k]
Retokened(st, h) ==
  [st EXCEPT !.agents =
     [i \in DOMAIN st.agents |->
        [st.agents[i] EXCEPT !.val.tokenHash = h[st.agents[i].key]]]]

\* no fragment of the text of result r is a token
TokenFree(r) == \A i \in DOMAIN r.resp[1].text : r.resp[1].text[i] \notin Secrets

\* agent_list and message_peek on st give the same results whatever the
\* tokenHash values are, and agent_list gives the three public fields only
HidesTokenHash(st) ==
  /\ Succeeded(agent_list(st)) =>
       \A i \in DOMAIN agent_list(st).resp[1].json[1] :
         DOMAIN agent_list(st).resp[1].json[1][i] = {"agentId", "capabilities", "allowlist"}
  /\ \A h \in [Ids -> Hashes] :
       /\ agent_list(Retokened(st, h)).resp = agent_list(st).resp
       /\ \A agentId \in {<<>>} \cup {<<id>> : id \in Ids} :
            message_peek(Retokened(st, h), agentId).resp = message_peek(st, agentId).resp

(* C16: no operation result exposes a tokenHash or a token: agent_list      *)
(* returns only agentId, capabilities and allowlist of each agent, the      *)
(* results of agent_list and message_peek are the same in any two states    *)
(* that differ only in tokenHash values, and no result text of any          *)
(* operation holds a token that was passed to it.                           *)
C16_TokenHashHidden ==
  Idle =>
    /\ HidesTokenHash(state)
    /\ \A a \in Ids, b \in Ids, token \in AllTokens :
         /\ TokenFree(agent_unregister(state, a, token))
         /\ TokenFree(message_send(state, a, b, "hi", <<>>, token, uuids + 1, 1000))
         /\ \A max \in {<<>>, <<1>>}, drain \in AllDrains :
              TokenFree(message_read(state, a, max, drain, token))
         /\ \A p \in Profiles(a) :
              TokenFree(agent_register(state, a, p[1], p[2], token))

\* agent_list has answered while a token-protected agent was registered
C16_Witness ==
  /\ LastOk("agent_list")
  /\ \E x \in Ids : Protected(state, x)
  /\ Len(resp[1].json[1]) >= 2

---------------------------------------------------------------------------
\* what C17 says of message_send(from, to) with token in BusState st, for
\* the senders of S and the recipients of T
ValidatesInOrder(st, S, T) ==
  \A from \in S, to \in T, token \in AllTokens :
    LET r == message_send(st, from, to, "hi", <<>>, token, uuids + 1, 1000)
    IN IF ~Registered(st, from) THEN Failed(r, AgentNotRegistered(from))
       ELSE IF ~HoldsToken(st, from, token) THEN Failed(r, InvalidToken)
       ELSE IF ~Registered(st, to) THEN Failed(r, AgentNotRegistered(to))
       ELSE IF ~Includes(Val(st.agents, from).allowlist, to)
         THEN Failed(r, NotAllowedMsg(from, to))
       ELSE /\ Succeeded(r)
            /\ r.saved
            /\ MailboxOf(r.state, to) =
                 Append(MailboxOf(st, to),
                        [id |-> uuids + 1, ts |-> 1000, from |-> from, to |-> to,
                         body |-> "hi", meta |-> <<>>])

(* C17: message_send validates in a fixed order and reports the first       *)
(* failure only: sender registered (else AgentNotFound naming the sender),  *)
(* sender token (else Unauthorized), recipient registered (else             *)
(* AgentNotFound naming the recipient), recipient in the sender's allowlist *)
(* (else NotAllowed); the message is appended only when all four pass.      *)
C17_SendValidationOrder == Idle => ValidatesInOrder(state, Ids, Ids)

\* C17 where it holds: on a loaded BusState and for the ids that are not
\* members of Object.prototype
C17_OutsidePrototype ==
  (Idle /\ ~state.promise) => ValidatesInOrder(state, Ids \ ProtoKeys, Ids \ ProtoKeys)

---------------------------------------------------------------------------
\* every message stored under mailbox key k is addressed to k
AddressedToKey ==
  \A i \in DOMAIN state.mailboxes :
    \A n \in DOMAIN state.mailboxes[i].val :
      state.mailboxes[i].val[n].to = state.mailboxes[i].key

(* C18: after any sequence of the six operations from the empty state, the  *)
(* set of mailbox keys equals the set of registered agentIds, and every     *)
(* message stored under mailbox key k has to = k.                           *)
C18_MailboxKeys ==
  /\ Keys(state.mailboxes) = Keys(state.agents)
  /\ AddressedToKey

\* C18 where it holds: for the ids that are not members of Object.prototype
C18_OutsidePrototype ==
  /\ Keys(state.mailboxes) = Keys(state.agents) \ ProtoKeys
  /\ AddressedToKey

---------------------------------------------------------------------------
\* the places of the mailboxes of st, and the queued messages with their keys
Slots(st) ==
  UNION {{<<i, n>> : n \in DOMAIN st.mailboxes[i].val} : i \in DOMAIN st.mailboxes}
QueuedIn(st) ==
  {<<st.mailboxes[s[1]].key, st.mailboxes[s[1]].val[s[2]]>> : s \in Slots(st)}

\* a queued message is in one place only, under the key of its recipient,
\* and carries an id that message_send has issued
QueuedOnce ==
  /\ \A s, t \in Slots(state) :
       s # t => state.mailboxes[s[1]].val[s[2]].id # state.mailboxes[t[1]].val[t[2]].id
  /\ \A p \in QueuedIn(state) : p[2].to = p[1] /\ p[2].id \in 1 .. uuids

\* the step answers a request with the success of operation op
Answers(op) == resp' # resp /\ resp' # <<>> /\ resp'[1].op = op /\ ~resp'[1].isError

\* the step is a draining message_read that succeeds
DrainingRead == Answers("message_read") /\ pending' # pending

\* what a step does to the queued messages
LifecycleStep ==
  \* a message enters a mailbox only by the message_send that creates it
  /\ \A q \in QueuedIn(state') \ QueuedIn(state) :
       /\ Answers("message_send")
       /\ q[2].id = uuids + 1
       /\ uuids' = uuids + 1
  /\ uuids' >= uuids
  \* a queued message stays what and where it is
  /\ \A p \in QueuedIn(state), q \in QueuedIn(state') : p[2].id = q[2].id => p = q
  \* a message leaves its mailbox only returned by a draining message_read of
  \* its recipient or discarded by an agent_unregister of its recipient
  /\ \A p \in QueuedIn(state) \ QueuedIn(state') :
       \/ /\ DrainingRead
          /\ resp'[1].json[1].agentId = p[1]
          /\ \E n \in DOMAIN resp'[1].json[1].messages :
               resp'[1].json[1].messages[n] = p[2]
       \/ /\ Answers("agent_unregister")
          /\ resp'[1].text = <<"OK: Agent '", p[1], "' unregistered">>
  \* what a draining message_read returns was queued and is queued no more
  /\ DrainingRead =>
       \A n \in DOMAIN resp'[1].json[1].messages :
         LET p == <<resp'[1].json[1].agentId, resp'[1].json[1].messages[n]>>
         IN /\ p \in QueuedIn(state)
            /\ \A q \in QueuedIn(state') : q[2].id # p[2].id
            /\ \A m \in DOMAIN resp'[1].json[1].messages :
                 m # n => resp'[1].json[1].messages[m].id # p[2].id

(* C19: every successfully sent message is queued exactly once, in the      *)
(* mailbox of its recipient and in no other, until one draining             *)
(* message_read returns it or an agent_unregister of its recipient discards *)
(* it: a message enters a mailbox only with a fresh id at its send, while   *)
(* queued it keeps its place, id, ts, from, to, body and meta, and once     *)
(* returned or discarded it is queued no more (its id is never issued       *)
(* again), so no message is returned by two draining reads.                 *)
C19_MessageLifecycle == [] QueuedOnce /\ [][LifecycleStep]_vars

\* a draining read has returned a message, which is queued nowhere any more,
\* while a message sent to another agent is still queued
C19_Witness ==
  /\ LastOk("message_read")
  /\ pending # <<>>
  /\ resp[1].json[1].count >= 1
  /\ \A q \in QueuedIn(state) : q[2].id # resp[1].json[1].messages[1].id
  /\ \E q \in QueuedIn(state) : q[1] # resp[1].json[1].agentId

---------------------------------------------------------------------------
\* the step answers a request: what it returns and what it does to the
\* BusState is what one of the handlers does, alone, on the BusState before
SerialStep ==
  resp' # resp =>
    \E agentId \in PipelinedIds, to \in PipelinedIds, drain \in DrainArgs :
      \E r \in {agent_unregister(state, agentId, <<>>),
                 message_send(state, agentId, to, "hi", <<>>, <<>>, uuids + 1, 1000),
                 message_read(state, agentId, <<>>, drain, <<>>)}
                \cup {agent_register(state, agentId, p[1], p[2], p[3]) :
                        p \in PipelinedProfiles(agentId)} :
        resp' = r.resp /\ state' = r.state

\* the step settles the last write in flight
WritesSettle == pending # <<>> /\ pending' = <<>>

(* C20: with several requests in flight the operations do not interleave:   *)
(* every response and the BusState after it are those of one handler run    *)
(* alone on the BusState before it, so the run is a serial execution; and   *)
(* once all pending writes have settled the persisted blob equals the       *)
(* in-memory BusState (the save of an earlier operation never overwrites    *)
(* the save of a later one).                                                *)
C20_SerialAndDurable ==
  [][SerialStep /\ (WritesSettle => blob' = <<JSONstringify(state')>>)]_vars

=============================================================================
